---- MODULE Spec2Model ----
(***************************************************************************)
(* State machine of the user-study task interface: one StudySession of a   *)
(* participant, the TaskSessions created for it, and the Docker containers *)
(* (sandboxes) bound to them.  website/models.py holds the model classes   *)
(* and their methods, website/views.py the request handlers.               *)
(***************************************************************************)
EXTENDS Integers, Sequences, FiniteSets, TLC

(* ------------------------------------------------------------------ *)
(* Bounds of the model                                                   *)
(* ------------------------------------------------------------------ *)

\* inc_num_tasks_completed has no upper guard: the counter is followed up to here
MaxCompleted == 19
\* containers created in one behaviour
MaxContainers == 3
\* timezone.now() draws a value of 1..MaxTime
MaxTime == 1
\* TaskSession rows kept: the newest ones; requests address only these
MaxKept == 2

(* ------------------------------------------------------------------ *)
(* Program constants                                                     *)
(* ------------------------------------------------------------------ *)

TASK_TRAINING == <<21, 22>>
TASK_BLOCK_I == <<5, 10, 6, 9, 19, 1, 18, 17, 16>>
\* faulty variant: a task of block I listed again in block II
TASK_BLOCK_II_repeating == <<8, 7, 2, 14, 12, 4, 13, 15, 5>>
TASK_BLOCK_II == <<8, 7, 2, 14, 12, 4, 13, 15, 11>>

\* container = None
None == 0
\* the DateTimeField default '1111-11-11 00:00:00' (no time stamped yet)
DefaultTime == 0

Groups == {"group1", "group2", "group3", "group4"}

PreStatuses == {"pre-consent", "pre-training", "training"}
StudyStatuses ==
    PreStatuses \cup {"running", "paused", "finished", "closed_with_error"}
TaskStatuses == {"running", "time_out", "quit", "passed"}
TaskTypes == {"stdout", "file_search", "filesystem_change"}

\* reasons a StudySession is closed with
StudyCloseReasons == {"finished", "closed_with_error", "paused"}
\* reasons close_study_session is called with by the views
ViewCloseReasons == {"finished", "closed_with_error"}
\* reasons a TaskSession is closed with
TaskCloseReasons == {"time_out", "quit", "passed"}

Times == 1..MaxTime

\* identifiers are (format, number) pairs relative to the study session id
EmptyId == <<"", 0>>
StudyId == <<"study_session", 1>>
get_task_session_id(num_tasks_completed) == <<"/task-", num_tasks_completed + 1>>

VARIABLES
    study_session,   \* the StudySession row
    task_sessions,   \* TaskSession rows, by session_id
    containers,      \* Container rows: containers[c] is the filesystem_name of c
    docker,          \* ids of the Docker containers that exist
    filesystems,     \* names of the virtual filesystems that exist
    last,            \* the operation that ran last, and how it ended
    user_sessions,   \* the StudySession rows of the participant that user_login reads
    action_history,  \* ActionHistory rows, in the order they were created
    requests         \* requests being handled: the step each is at and the objects it loaded

vars == <<study_session, task_sessions, containers, docker, filesystems, last,
         user_sessions, action_history, requests>>

Did(op, result) == [op |-> op, result |-> result]

(* ------------------------------------------------------------------ *)
(* StudySession (models.py)                                              *)
(* ------------------------------------------------------------------ *)

task_block_order(s) ==
    IF s.group \in {"group1", "group4"} THEN "0" ELSE "1"

switch_point(s) ==
    IF s.group \in {"group1", "group4"}
    THEN Len(TASK_BLOCK_I)
    ELSE Len(TASK_BLOCK_II)

treatment_order(s) ==
    IF s.group \in {"group1", "group3"} THEN "0" ELSE "1"

\* treatment_assignments: the treatment at a stage, by treatment order
treatment_assignments ==
    [key \in {"0", "1"} \X {"I", "II"} |->
        IF key \in {<<"0", "I">>, <<"1", "II">>} THEN "A" ELSE "B"]

\* the stage property; the value names the exception when it raises
stage(s) ==
    IF ~(s.num_tasks_completed <= s.total_num_tasks) THEN "AssertionError"
    ELSE IF s.status \in PreStatuses THEN "O"
    ELSE IF s.status = "running"
         THEN IF s.num_tasks_completed < switch_point(s) THEN "I"
              ELSE IF s.num_tasks_completed < s.total_num_tasks THEN "II"
              ELSE "III"
    ELSE "ValueError"

\* faulty variant: the end of the study is not a stage change
stage_change_without_total(s) ==
    s.status = "running"
    /\ (s.num_tasks_completed = 0 \/ s.num_tasks_completed = switch_point(s))

stage_change(s) ==
    IF s.status = "running"
    THEN IF \/ s.num_tasks_completed = 0
            \/ s.num_tasks_completed = switch_point(s)
            \/ s.num_tasks_completed = s.total_num_tasks
         THEN TRUE
         ELSE FALSE
    ELSE FALSE

\* StudySession.close: the row after the call
StudySession_close(s, reason_for_close, now) ==
    IF s.status = "running" \/ s.status = "paused"
    THEN [s EXCEPT !.current_task_session_id = EmptyId,
                   !.close_time = now,
                   !.status = reason_for_close]
    ELSE s

\* faulty variant: the counter is not reset when the training ends
StudySession_inc_without_reset(s) ==
    [s EXCEPT !.num_tasks_completed = @ + 1]

\* StudySession.inc_num_tasks_completed: the row after the call
StudySession_inc_num_tasks_completed(s) ==
    LET n == s.num_tasks_completed + 1 IN
    IF s.status = "training" /\ n = s.total_num_training_tasks
    THEN [s EXCEPT !.num_tasks_completed = 0, !.status = "running"]
    ELSE [s EXCEPT !.num_tasks_completed = n]

\* faulty variant: training identifiers are formatted as scored identifiers
new_task_session_id_unprefixed(s) ==
    IF s.status \in PreStatuses \/ s.status = "running"
    THEN <<"-task-", s.num_tasks_completed + 1>>
    ELSE EmptyId

\* the identifier update_current_task_session_id computes; EmptyId when it raises
new_task_session_id(s) ==
    IF s.status \in PreStatuses
    THEN <<"-training-task-", s.num_tasks_completed + 1>>
    ELSE IF s.status = "running"
    THEN <<"-task-", s.num_tasks_completed + 1>>
    ELSE EmptyId

(* ------------------------------------------------------------------ *)
(* Scheduler (views.py)                                                  *)
(* ------------------------------------------------------------------ *)

\* the task_id picked; 0 stands for the IndexError of a position past both blocks
pick_task(num_tasks_completed) ==
    IF num_tasks_completed < Len(TASK_BLOCK_I)
    THEN TASK_BLOCK_I[num_tasks_completed + 1]
    ELSE IF num_tasks_completed - Len(TASK_BLOCK_I) < Len(TASK_BLOCK_II)
    THEN TASK_BLOCK_II[num_tasks_completed - Len(TASK_BLOCK_I) + 1]
    ELSE 0

\* faulty variant: a session that is already closed is closed again
close_study_session_unguarded(session, reason_for_close) ==
    [session EXCEPT !.current_task_session_id = EmptyId,
                    !.status = reason_for_close]

\* faulty variant: the close at the end of the study leaves the status
close_study_session_keeping_status(session, reason_for_close) ==
    IF session.status = "running" \/ session.status = "paused"
    THEN [session EXCEPT !.current_task_session_id = EmptyId]
    ELSE session

\* close_study_session: the row it saves (the sandbox is destroyed after the save)
close_study_session(session, reason_for_close) ==
    IF session.status = "running" \/ session.status = "paused"
    THEN [session EXCEPT !.current_task_session_id = EmptyId,
                         !.status = reason_for_close]
    ELSE session

(* ------------------------------------------------------------------ *)
(* Containers (models.py)                                                *)
(* ------------------------------------------------------------------ *)

\* Container.destroy: docker rm -f container_id, then delete_filesystem.bash
DockerAfterDestroy(c) == docker \ {c}
FilesystemsAfterDestroy(c) == filesystems \ {containers[c]}

\* create_container: the row id of the container it creates
NewContainer == Len(containers) + 1

\* a sandbox is live while its Docker container exists
Live(c) == c # None /\ c \in docker

(* ------------------------------------------------------------------ *)
(* TaskSession (models.py)                                               *)
(* ------------------------------------------------------------------ *)

\* TaskSession.objects.create(study_session, session_id, task, start_time, status)
NewTaskSession(task) ==
    [status |-> "running", task |-> task,
     container |-> None, db_container |-> None, end_time |-> DefaultTime]

\* the update_*_seen calls of TaskSession.close, for a Task row of the given type
SeenAfterClose(s, type) ==
    [s EXCEPT !.standard_output_seen = @ \/ type = "stdout",
              !.file_search_seen = @ \/ type = "file_search",
              !.filesystem_change_seen = @ \/ type = "filesystem_change"]

\* faulty variant: the existing container is not destroyed
ContainerForgotten(t) == None

\* the container create_new_container destroys before it creates the new one
ContainerToReplace(t) == t.container

\* the binding destroy_container leaves
BindingAfterDestroy(t) == None

\* the rows kept when a row is added: the newest MaxKept - 1 and the new one
Number(id) == id[2]
Kept(rows) ==
    IF Cardinality(DOMAIN rows) < MaxKept THEN DOMAIN rows
    ELSE DOMAIN rows \ {CHOOSE id \in DOMAIN rows :
                            \A other \in DOMAIN rows : Number(id) <= Number(other)}

(* ------------------------------------------------------------------ *)
(* Initial states                                                        *)
(* ------------------------------------------------------------------ *)

NewStudySession(group, status) ==
    [group |-> group,
     status |-> status,
     total_num_training_tasks |-> Len(TASK_TRAINING),
     total_num_tasks |-> Len(TASK_BLOCK_I) + Len(TASK_BLOCK_II),
     current_task_session_id |-> EmptyId,
     num_tasks_completed |-> 0,
     filesystem_change_seen |-> FALSE,
     file_search_seen |-> FALSE,
     standard_output_seen |-> FALSE,
     close_time |-> DefaultTime,
     container |-> None]

\* a StudySession constructed before the scored part of the study
InitConstructed ==
    /\ \E g \in Groups, st \in PreStatuses :
          study_session = NewStudySession(g, st)
    /\ task_sessions = <<>>
    /\ containers = <<>>
    /\ docker = {}
    /\ filesystems = {}
    /\ last = Did("StudySession", "ok")
    /\ user_sessions = <<>>
    /\ action_history = <<>>
    /\ requests = <<>>

\* user_login registering a new study session with its first task session
InitLogin ==
    /\ \E g \in Groups :
          study_session =
              [NewStudySession(g, "running") EXCEPT
                  !.container = 1,
                  !.current_task_session_id = get_task_session_id(0)]
    /\ task_sessions = (get_task_session_id(0) :> NewTaskSession(pick_task(0)))
    /\ containers = <<StudyId>>
    /\ docker = {1}
    /\ filesystems = {StudyId}
    /\ last = Did("user_login", "SESSION_CREATED")
    /\ user_sessions = <<>>
    /\ action_history = <<>>
    /\ requests = <<>>

Init == InitConstructed \/ InitLogin

(* ------------------------------------------------------------------ *)
(* Operations on the StudySession                                        *)
(* ------------------------------------------------------------------ *)

inc_num_tasks_completed ==
    /\ study_session.num_tasks_completed < MaxCompleted
    /\ study_session' = StudySession_inc_num_tasks_completed(study_session)
    /\ last' = Did("inc_num_tasks_completed", "ok")
    /\ UNCHANGED <<task_sessions, containers, docker, filesystems,
                   user_sessions, action_history, requests>>

close(reason_for_close) ==
    /\ \E now \in Times :
          study_session' = StudySession_close(study_session, reason_for_close, now)
    /\ last' = Did("close", IF study_session.status \in {"running", "paused"}
                   THEN "closed" ELSE "ignored")
    /\ UNCHANGED <<task_sessions, containers, docker, filesystems,
                   user_sessions, action_history, requests>>

update_current_task_session_id ==
    LET id == new_task_session_id(study_session) IN
    /\ study_session' =
          IF id = EmptyId THEN study_session
          ELSE [study_session EXCEPT !.current_task_session_id = id]
    /\ last' = Did("update_current_task_session_id", IF id = EmptyId THEN "ValueError" ELSE "ok")
    /\ UNCHANGED <<task_sessions, containers, docker, filesystems,
                   user_sessions, action_history, requests>>

\* close_study_session as the views call it on a session
CloseStudySession(reason_for_close) ==
    LET open == study_session.status \in {"running", "paused"}
        c == study_session.container
    IN
    /\ study_session' = close_study_session(study_session, reason_for_close)
    /\ IF open /\ c # None
       THEN /\ docker' = DockerAfterDestroy(c)
            /\ filesystems' = FilesystemsAfterDestroy(c)
       ELSE UNCHANGED <<docker, filesystems>>
    /\ last' = Did("close_study_session", IF ~open THEN "ignored"
                   ELSE IF c = None THEN "AttributeError" ELSE "destroyed")
    /\ UNCHANGED <<task_sessions, containers,
                   user_sessions, action_history, requests>>

(* ------------------------------------------------------------------ *)
(* Operations on a TaskSession                                           *)
(* ------------------------------------------------------------------ *)

\* TaskSession.create_new_container on the object of row id
create_new_container(id) ==
    LET t == task_sessions[id]
        old == ContainerToReplace(t)
        c == NewContainer
    IN
    /\ Len(containers) < MaxContainers
    /\ containers' = Append(containers, id)
    /\ docker' = (IF old # None THEN DockerAfterDestroy(old) ELSE docker) \cup {c}
    /\ filesystems' =
          (IF old # None THEN FilesystemsAfterDestroy(old) ELSE filesystems)
              \cup {id}
    /\ task_sessions' =
          [task_sessions EXCEPT ![id].container = c, ![id].db_container = c]
    /\ last' = Did("create_new_container", "ok")
    /\ UNCHANGED <<study_session, user_sessions, action_history, requests>>

\* the exceptions create_container lets through: APIError from
\* client.create_container, after make_filesystem.bash ran; KeyError from the
\* port lookup on inspect_container, after the container was started
ProvisioningErrors == {"APIError", "KeyError"}

\* Docker containers that have no Container row (numbered below 0)
Orphans == {d \in docker : d < 0}

\* TaskSession.create_new_container on the object of row id when
\* create_container raises: nothing is undone, self.save() is not reached
create_new_container_fails(id, error) ==
    LET t == task_sessions[id]
        old == ContainerToReplace(t)
        docker_left == IF old # None THEN DockerAfterDestroy(old) ELSE docker
        filesystems_left ==
            IF old # None THEN FilesystemsAfterDestroy(old) ELSE filesystems
    IN
    /\ Len(containers) + Cardinality(Orphans) < MaxContainers
    /\ filesystems' = filesystems_left \cup {id}
    /\ docker' = IF error = "APIError" THEN docker_left
                 ELSE docker_left \cup {-(Cardinality(Orphans) + 1)}
    /\ task_sessions' = [task_sessions EXCEPT ![id].container = None]
    /\ last' = Did("create_new_container", error)
    /\ UNCHANGED <<study_session, containers, user_sessions, action_history,
                   requests>>

\* TaskSession.destroy_container on the object of row id: no save() follows
destroy_container(id) ==
    LET t == task_sessions[id] IN
    /\ IF t.container = None
       THEN /\ UNCHANGED <<task_sessions, docker, filesystems>>
            /\ last' = Did("destroy_container", "AttributeError")
       ELSE /\ docker' = DockerAfterDestroy(t.container)
            /\ filesystems' = FilesystemsAfterDestroy(t.container)
            /\ task_sessions' =
                  [task_sessions EXCEPT ![id].container = BindingAfterDestroy(t)]
            /\ last' = Did("destroy_container", "ok")
    /\ UNCHANGED <<study_session, containers,
                   user_sessions, action_history, requests>>

\* TaskSession.close on the object of row id, whose Task row has the given type
TaskSession_close_of_type(id, type, reason_for_close) ==
    LET t == task_sessions[id] IN
    /\ study_session' = SeenAfterClose(study_session, type)
    /\ \E now \in Times :
          IF t.container = None
          THEN \* self.container.destroy() raises: status and row are not saved
               /\ task_sessions' = [task_sessions EXCEPT ![id].end_time = now]
               /\ UNCHANGED <<docker, filesystems>>
               /\ last' = Did("TaskSession.close", "AttributeError")
          ELSE /\ docker' = DockerAfterDestroy(t.container)
               /\ filesystems' = FilesystemsAfterDestroy(t.container)
               /\ task_sessions' =
                     [task_sessions EXCEPT ![id].end_time = now,
                                           ![id].status = reason_for_close,
                                           ![id].db_container = t.container]
               /\ last' = Did("TaskSession.close", "ok")
    /\ UNCHANGED <<containers, user_sessions, action_history, requests>>

\* TaskSession.close on the object of row id, for any type of its Task row
TaskSession_close(id, reason_for_close) ==
    \E type \in TaskTypes : TaskSession_close_of_type(id, type, reason_for_close)

\* a later request loads the TaskSession row again
refresh_from_db(id) ==
    /\ task_sessions[id].container # task_sessions[id].db_container
    /\ task_sessions' =
          [task_sessions EXCEPT ![id].container = task_sessions[id].db_container]
    /\ last' = Did("TaskSession.objects.get", "ok")
    /\ UNCHANGED <<study_session, containers, docker, filesystems,
                   user_sessions, action_history, requests>>

\* faulty variant: the calls made with check=True
Container_destroy_checked(c) ==
    IF Live(c) /\ containers[c] \in filesystems THEN "ok" ELSE "CalledProcessError"

\* subprocess.run without check=True: the exit status of the command is not
\* looked at and nothing is raised
Container_destroy_result(c) == "ok"

\* Container.destroy on the Container row c; found records what the two
\* commands met (the Docker container, the filesystem root)
Container_destroy(c) ==
    /\ docker' = DockerAfterDestroy(c)
    /\ filesystems' = FilesystemsAfterDestroy(c)
    /\ last' = [op |-> "Container.destroy", result |-> Container_destroy_result(c),
                container |-> c, found |-> <<Live(c), containers[c] \in filesystems>>]
    /\ UNCHANGED <<study_session, task_sessions, containers,
                   user_sessions, action_history, requests>>

(* ------------------------------------------------------------------ *)
(* go_to_next_task (views.py)                                            *)
(* ------------------------------------------------------------------ *)

go_to_next_task(id, reason_for_close) ==
    LET current_task_session == task_sessions[id]
        was_running == current_task_session.status = "running"
        num_tasks_completed ==
            IF was_running THEN study_session.num_tasks_completed + 1
            ELSE study_session.num_tasks_completed
        counted == [study_session EXCEPT !.num_tasks_completed = num_tasks_completed]
        next_task_session_id == get_task_session_id(num_tasks_completed)
    IN
    \E now \in Times :
      LET saved ==
              IF was_running
              THEN [task_sessions EXCEPT ![id].end_time = now,
                                         ![id].status = reason_for_close]
              ELSE task_sessions
      IN
      IF ~(num_tasks_completed <= study_session.total_num_tasks)
      THEN /\ task_sessions' = saved
           /\ last' = Did("go_to_next_task", "AssertionError")
           /\ UNCHANGED <<study_session, containers, docker, filesystems,
                          user_sessions, action_history, requests>>
      ELSE IF num_tasks_completed = study_session.total_num_tasks
      THEN LET open == study_session.status \in {"running", "paused"}
               c == study_session.container
           IN
           /\ task_sessions' = saved
           /\ study_session' =
                 IF open THEN close_study_session(counted, "finished")
                 ELSE study_session
           /\ IF open /\ c # None
              THEN /\ docker' = DockerAfterDestroy(c)
                   /\ filesystems' = FilesystemsAfterDestroy(c)
              ELSE UNCHANGED <<docker, filesystems>>
           /\ last' = Did("go_to_next_task", IF open /\ c = None THEN "AttributeError"
                          ELSE "STUDY_SESSION_COMPLETE")
           /\ UNCHANGED <<containers, user_sessions, action_history, requests>>
      ELSE IF study_session.container = None
      THEN /\ task_sessions' = saved
           /\ last' = Did("go_to_next_task", "AttributeError")
           /\ UNCHANGED <<study_session, containers, docker, filesystems,
                          user_sessions, action_history, requests>>
      ELSE /\ study_session' =
                 [counted EXCEPT !.current_task_session_id = next_task_session_id]
           /\ IF next_task_session_id \in DOMAIN task_sessions
              THEN /\ task_sessions' = saved
                   /\ last' = Did("go_to_next_task", "IntegrityError")
              ELSE /\ task_sessions' =
                         [i \in Kept(saved) \cup {next_task_session_id} |->
                             IF i = next_task_session_id
                             THEN NewTaskSession(pick_task(num_tasks_completed))
                             ELSE saved[i]]
                   /\ last' = Did("go_to_next_task", "RUNNING")
           /\ UNCHANGED <<containers, docker, filesystems,
                          user_sessions, action_history, requests>>

(* ------------------------------------------------------------------ *)
(* user_login (views.py)                                                 *)
(* ------------------------------------------------------------------ *)

\* StudySession rows one participant gets
MaxSessions == 3

\* the container and filesystem name of the participant's k-th study session
SessionName(k) == <<"study_session", k>>

\* a row of user_sessions: the StudySession fields user_login uses, and
\* current_task_status, the status of the TaskSession row that
\* current_task_session_id names ("DoesNotExist" when there is no such row)
NewUserSession(container) ==
    [status |-> "running", container |-> container,
     current_task_session_id |-> get_task_session_id(0),
     current_task_status |-> "running"]

\* StudySession.objects.filter(user=user, status='running').order_by('creation_time')
RunningSessions ==
    SelectSeq([i \in 1..Len(user_sessions) |-> i],
              LAMBDA i : user_sessions[i].status = "running")

\* the sessions whose current TaskSession is found running or paused
HealthySessions ==
    SelectSeq(RunningSessions,
              LAMBDA i : user_sessions[i].current_task_status = "running"
                           \/ user_sessions[i].current_task_status = "paused")

\* faulty variant: the oldest healthy session is resumed
ResumedOldest(existing_sessions) == existing_sessions[1]

\* existing_sessions[-1]
Resumed(existing_sessions) == existing_sessions[Len(existing_sessions)]

\* close_study_session on a row of user_sessions
ClosedUserSession(session, reason_for_close) ==
    IF session.status \in {"running", "paused"}
    THEN [close_study_session(session, reason_for_close) EXCEPT
             !.current_task_status = "DoesNotExist"]
    ELSE session

user_login(check_existing_session) ==
    LET healthy_sessions == HealthySessions
        found == check_existing_session = "true" /\ healthy_sessions # <<>>
        \* the sessions close_study_session(session, 'closed_with_error') is called on
        closed ==
            IF check_existing_session = "true"
            THEN {RunningSessions[k] : k \in 1..Len(RunningSessions)}
                     \ (IF found THEN {Resumed(healthy_sessions)} ELSE {})
            ELSE {}
        after_close ==
            [i \in 1..Len(user_sessions) |->
                IF i \in closed
                THEN ClosedUserSession(user_sessions[i], "closed_with_error")
                ELSE user_sessions[i]]
        destroyed == {user_sessions[i].container : i \in closed}
        docker_left == docker \ destroyed
        filesystems_left == filesystems \ {containers[c] : c \in destroyed}
        count == Len(user_sessions)
    IN
    IF found
    THEN /\ user_sessions' = after_close
         /\ docker' = docker_left
         /\ filesystems' = filesystems_left
         /\ last' = [op |-> "user_login", result |-> "RUNNING_STUDY_SESSION_FOUND",
                     check_existing_session |-> check_existing_session,
                     session |-> Resumed(healthy_sessions)]
         /\ UNCHANGED <<study_session, task_sessions, containers, action_history,
                        requests>>
    ELSE /\ count < MaxSessions
         /\ containers' = Append(containers, SessionName(count + 1))
         /\ docker' = docker_left \cup {NewContainer}
         /\ filesystems' = filesystems_left \cup {SessionName(count + 1)}
         /\ user_sessions' = Append(after_close, NewUserSession(NewContainer))
         /\ last' = [op |-> "user_login", result |-> "SESSION_CREATED",
                     check_existing_session |-> check_existing_session,
                     session |-> count + 1]
         /\ UNCHANGED <<study_session, task_sessions, action_history, requests>>

\* close_study_session on the participant's i-th session, as go_to_next_task
\* calls it at the end of the study
close_user_session(i, reason_for_close) ==
    LET session == user_sessions[i]
        open == session.status \in {"running", "paused"}
    IN
    /\ user_sessions' =
          [user_sessions EXCEPT ![i] = ClosedUserSession(session, reason_for_close)]
    /\ IF open
       THEN /\ docker' = DockerAfterDestroy(session.container)
            /\ filesystems' = FilesystemsAfterDestroy(session.container)
       ELSE UNCHANGED <<docker, filesystems>>
    /\ last' = Did("close_study_session", IF open THEN "destroyed" ELSE "ignored")
    /\ UNCHANGED <<study_session, task_sessions, containers, action_history,
                   requests>>

\* go_to_next_task saves the closed TaskSession, and its request ends before
\* the new current_task_session_id is saved
task_session_closed(i, reason_for_close) ==
    /\ user_sessions[i].status = "running"
    /\ user_sessions[i].current_task_status = "running"
    /\ user_sessions' =
          [user_sessions EXCEPT ![i].current_task_status = reason_for_close]
    /\ last' = Did("go_to_next_task", "closed")
    /\ UNCHANGED <<study_session, task_sessions, containers, docker, filesystems,
                   action_history, requests>>

\* go_to_next_task saves the new current_task_session_id, and pick_task
\* raises before TaskSession.objects.create
task_session_missing(i) ==
    /\ user_sessions[i].status = "running"
    /\ user_sessions[i].current_task_status = "running"
    /\ user_sessions' =
          [user_sessions EXCEPT
              ![i].current_task_session_id = get_task_session_id(1),
              ![i].current_task_status = "DoesNotExist"]
    /\ last' = Did("go_to_next_task", "TASK_SESSION_DOES_NOT_EXIST")
    /\ UNCHANGED <<study_session, task_sessions, containers, docker, filesystems,
                   action_history, requests>>

(* ------------------------------------------------------------------ *)
(* Filesystem snapshots (filesystem.py)                                  *)
(* ------------------------------------------------------------------ *)

\* the working user of a sandbox, and the owners an entry can have
USER_NAME == "me"
Owners == {USER_NAME, "root"}

\* entry names in listing order, and the paths below a home directory
Names == <<"a", "b">>
Paths == {<<"a">>, <<"b">>, <<"a", "b">>}
Kinds == {"directory", "file"}

\* a home directory with nothing in it
EmptyDisk == [p \in {} |-> [kind |-> "file", owner |-> USER_NAME]]

\* what a home directory can hold: an entry has a kind and an owner, and an
\* entry below the top level lies in a directory
Disks ==
    {d \in UNION {[S -> [kind : Kinds, owner : Owners]] : S \in SUBSET Paths} :
        \A p \in DOMAIN d :
            Len(p) > 1 =>
                /\ SubSeq(p, 1, Len(p) - 1) \in DOMAIN d
                /\ d[SubSeq(p, 1, Len(p) - 1)].kind = "directory"}

\* disk_2_dict: the entries of the directory at path, in name order, each
\* with its attributes and, for a directory, the entries below it
RECURSIVE disk_2_dict(_, _)
disk_2_dict(disk, path) ==
    LET present == SelectSeq(Names, LAMBDA n : Append(path, n) \in DOMAIN disk)
    IN [k \in 1..Len(present) |->
           LET p == Append(path, present[k]) IN
           [name |-> present[k], kind |-> disk[p].kind, owner |-> disk[p].owner,
            children |-> IF disk[p].kind = "directory"
                         THEN disk_2_dict(disk, p) ELSE <<>>]]

\* dict_2_disk: every node of the tree is created below root with the
\* attributes recorded for it; what the disk holds besides is left alone
RECURSIVE dict_2_disk(_, _, _)
dict_2_disk(tree, root, disk) ==
    IF tree = <<>> THEN disk
    ELSE LET node == Head(tree)
             p == Append(root, node.name)
             created == (p :> [kind |-> node.kind, owner |-> node.owner]) @@ disk
         IN dict_2_disk(Tail(tree), root, dict_2_disk(node.children, p, created))

\* chown -R USER_NAME:USER_NAME /home/USER_NAME in the container
chown(home) == [p \in DOMAIN home |-> [home[p] EXCEPT !.owner = USER_NAME]]

\* task.initial_filesystem of the Task rows: snapshots of homes as
\* provisioning leaves them, every entry owned by the working user
InitialFilesystems == {disk_2_dict(chown(d), <<>>) : d \in Disks}

(* ------------------------------------------------------------------ *)
(* on_command_execution and reset_file_system (views.py)                 *)
(* ------------------------------------------------------------------ *)

\* characters of a terminal output, and the longest output posted
MaxStdout == 2
\* ActionHistory rows kept
MaxActions == 2

\* text is a sequence of characters
NL == "\n"
Chars == {"d", NL}
Stdouts == UNION {[1..n -> Chars] : n \in 0..MaxStdout}
\* the expected output of a task of type 'stdout'
GoalTexts == {<<"d">>, <<"d", "d">>}
RESET == <<"_", "_", "r", "e", "s", "e", "t", "_", "_">>

\* the filesystem snapshots compared: task.initial_filesystem, task.goal and
\* what the participant's commands left on the disk
Snapshots == {"initial_filesystem", "goal"}

\* text.split('\n')
RECURSIVE split(_)
split(text) ==
    IF \A i \in 1..Len(text) : text[i] # NL
    THEN <<text>>
    ELSE LET k == CHOOSE i \in 1..Len(text) :
                      text[i] = NL /\ \A j \in 1..(i - 1) : text[j] # NL
         IN <<SubSeq(text, 1, k - 1)>> \o split(SubSeq(text, k + 1, Len(text)))

\* goal in line
Contains(goal, line) ==
    \E i \in 0..(Len(line) - Len(goal)) : SubSeq(line, i + 1, i + Len(goal)) = goal

\* filesystem_diff: its top-level tag says whether the two trees differ
filesystem_diff(current_file_system, goal) == [tag |-> current_file_system # goal]

\* the test on task.type that selects the filesystem comparison
IsFilesystemType(type) == type = "filesearch" \/ type = "filesystem"

\* the completion check of on_command_execution: the value of task_completed
\* ("True", "False") or the exception raised
task_completed(type, goal, stdout_lines, fs_diff) ==
    IF type = "stdout"
    THEN IF Len(stdout_lines) < 2 THEN "IndexError"
         ELSE IF Contains(goal, stdout_lines[Len(stdout_lines) - 1])
         THEN "True" ELSE "False"
    ELSE IF IsFilesystemType(type)
    THEN IF ~fs_diff.tag THEN "True" ELSE "False"
    ELSE "AttributeError"

\* on_command_execution for the TaskSession id: the request posts stdout, the
\* Task row has the given type and goal text, the disk holds current_file_system;
\* response is the 'filesystem_diff' of the JSON answer, <<>> when none is built
on_command_execution(id, stdout, type, goal, current_file_system) ==
    LET stdout_lines == split(stdout)
        fs_diff == filesystem_diff(current_file_system,
                       IF type = "stdout" THEN "initial_filesystem" ELSE "goal")
        completed == task_completed(type, goal, stdout_lines, fs_diff)
        request == [op |-> "on_command_execution", type |-> type, goal |-> goal,
                    stdout |-> stdout, current_file_system |-> current_file_system]
    IN
    /\ Len(action_history) < MaxActions
    /\ action_history' = Append(action_history, [task_session |-> id, action |-> stdout])
    /\ last' =
          IF study_session.container = None
          THEN request @@ [result |-> "AttributeError", response |-> <<>>]
          ELSE IF completed \in {"IndexError", "AttributeError"}
          THEN request @@ [result |-> completed, response |-> <<>>]
          ELSE request @@ [result |-> IF completed = "True" THEN "TASK_COMPLETED"
                                      ELSE "json_response",
                           response |-> <<fs_diff>>]
    /\ UNCHANGED <<study_session, task_sessions, containers, docker, filesystems,
                   user_sessions, requests>>

\* faulty variant: the reset is not recorded
HistoryWithoutReset(id) == action_history

\* ActionHistory.objects.create(task_session, action = '__reset__', action_time)
HistoryAfterReset(id) ==
    Append(action_history, [task_session |-> id, action |-> RESET])

\* faulty variant: the home directory is not emptied before it is filled
not_wiped(home) == home

\* rm -r /home/USER_NAME in the container: the mount point stays, empty
wiped(home) == EmptyDisk

\* reset_file_system for the TaskSession id, whose Task row has the given
\* initial_filesystem, when the sandbox's home directory holds home
reset_file_system(id, initial_filesystem, home) ==
    /\ Len(action_history) < MaxActions
    /\ IF study_session.container = None
       THEN /\ last' = Did("reset_file_system", "AttributeError")
            /\ UNCHANGED action_history
       ELSE /\ action_history' = HistoryAfterReset(id)
            /\ last' = [op |-> "reset_file_system", result |-> "ok",
                        task_session |-> id,
                        container_id |-> study_session.container,
                        current_filesystem |-> initial_filesystem,
                        home |-> home,
                        home_after |->
                            chown(dict_2_disk(initial_filesystem, <<>>,
                                              wiped(home)))]
    /\ UNCHANGED <<study_session, task_sessions, containers, docker, filesystems,
                   user_sessions, requests>>

(* ------------------------------------------------------------------ *)
(* Page tours (models.py)                                                *)
(* ------------------------------------------------------------------ *)

\* page_tour = None
NoTour == "None"

\* TaskSession.page_tour for a TaskSession of study session s whose task has
\* the given type
page_tour(type, s) ==
    LET init == s.status = "training" /\ s.num_tasks_completed = 0 IN
    IF type = "stdout" /\ ~s.standard_output_seen
    THEN IF init THEN "init_standard_output" ELSE "first_standard_output"
    ELSE IF type = "file_search" /\ ~s.file_search_seen
    THEN IF init THEN "init_file_search" ELSE "first_file_search"
    ELSE IF type = "filesystem_change" /\ ~s.filesystem_change_seen
    THEN IF init THEN "init_filesystem_change" ELSE "first_filesystem_change"
    ELSE NoTour

\* the types of the task sessions the study session has had so far
TypesSoFar ==
    UNION {task_sessions[id].earlier \cup {task_sessions[id].type} :
              id \in DOMAIN task_sessions}

\* the next TaskSession of the study session is created for a task of the
\* given type once the one before is closed, and its page is shown: the row
\* also holds the tour read, whether it is a training task, and the types of
\* the task sessions before it
start_task_session(type) ==
    LET id == new_task_session_id(study_session)
        row == NewTaskSession(IF study_session.status = "training"
                              THEN TASK_TRAINING[study_session.num_tasks_completed + 1]
                              ELSE pick_task(study_session.num_tasks_completed))
                 @@ [type |-> type,
                     is_training |-> study_session.status = "training",
                     page_tour |-> page_tour(type, study_session),
                     earlier |-> TypesSoFar]
    IN
    /\ study_session.status \in {"training", "running"}
    /\ id \notin DOMAIN task_sessions
    /\ \A other \in DOMAIN task_sessions : task_sessions[other].status # "running"
    /\ study_session' = [study_session EXCEPT !.current_task_session_id = id]
    /\ task_sessions' =
          [i \in Kept(task_sessions) \cup {id} |->
              IF i = id THEN row ELSE task_sessions[i]]
    /\ last' = Did("start_task_session", "ok")
    /\ UNCHANGED <<containers, docker, filesystems, user_sessions, action_history,
                   requests>>

(* ------------------------------------------------------------------ *)
(* go_to_next_task, one database operation at a time (views.py)          *)
(* ------------------------------------------------------------------ *)

\* go_to_next_task requests handled in one behaviour
MaxRequests == 2

\* a request at the end of its handler
Answered(r, status) ==
    [requests EXCEPT ![r].pc = "done", ![r].status = status]

\* task_session_id_required: the request with cookie task_session_id = id
\* arrives and TaskSession.objects.get loads the row into an object
task_session_id_required(id, reason_for_close) ==
    /\ Len(requests) < MaxRequests
    /\ requests' = Append(requests,
          [pc |-> "study_session", task_session_id |-> id,
           reason_for_close |-> reason_for_close,
           current_task_session |-> task_sessions[id],
           study_session |-> study_session,
           closed |-> FALSE, status |-> ""])
    /\ UNCHANGED <<study_session, task_sessions, containers, docker, filesystems,
                   last, user_sessions, action_history>>

\* study_session = current_task_session.study_session: the StudySession row is
\* loaded into an object
go_to_next_task_study_session(r) ==
    /\ requests[r].pc = "study_session"
    /\ requests' = [requests EXCEPT ![r].pc = "close",
                                    ![r].study_session = study_session]
    /\ UNCHANGED <<study_session, task_sessions, containers, docker, filesystems,
                   last, user_sessions, action_history>>

\* the test on the loaded status; current_task_session.save() and the
\* increment of the counter of the loaded StudySession
go_to_next_task_close(r) ==
    LET q == requests[r] IN
    /\ q.pc = "close"
    /\ IF q.current_task_session.status = "running"
       THEN \E now \in Times :
              LET saved == [q.current_task_session EXCEPT
                               !.end_time = now, !.status = q.reason_for_close]
              IN
              /\ task_sessions' = [task_sessions EXCEPT ![q.task_session_id] = saved]
              /\ requests' =
                    [requests EXCEPT
                        ![r].pc = "save",
                        ![r].current_task_session = saved,
                        ![r].closed = TRUE,
                        ![r].study_session.num_tasks_completed = @ + 1]
       ELSE /\ requests' = [requests EXCEPT ![r].pc = "save"]
            /\ UNCHANGED task_sessions
    /\ UNCHANGED <<study_session, containers, docker, filesystems, last,
                   user_sessions, action_history>>

\* the completion check; close_study_session at the end of the study, else
\* study_session.save() with the next current_task_session_id
go_to_next_task_save(r) ==
    LET q == requests[r]
        s == q.study_session
        num_tasks_completed == s.num_tasks_completed
        next_task_session_id == get_task_session_id(num_tasks_completed)
    IN
    /\ q.pc = "save"
    /\ IF ~(num_tasks_completed <= s.total_num_tasks)
       THEN /\ requests' = Answered(r, "AssertionError")
            /\ last' = Did("go_to_next_task", "AssertionError")
            /\ UNCHANGED <<study_session, docker, filesystems>>
       ELSE IF num_tasks_completed = s.total_num_tasks
       THEN LET open == s.status \in {"running", "paused"} IN
            /\ study_session' =
                  IF open THEN close_study_session(s, "finished") ELSE study_session
            /\ IF open /\ s.container # None
               THEN /\ docker' = DockerAfterDestroy(s.container)
                    /\ filesystems' = FilesystemsAfterDestroy(s.container)
               ELSE UNCHANGED <<docker, filesystems>>
            /\ requests' = Answered(r, IF open /\ s.container = None
                                       THEN "AttributeError"
                                       ELSE "STUDY_SESSION_COMPLETE")
            /\ last' = Did("go_to_next_task", IF open /\ s.container = None
                                              THEN "AttributeError"
                                              ELSE "STUDY_SESSION_COMPLETE")
       ELSE IF s.container = None
       THEN /\ requests' = Answered(r, "AttributeError")
            /\ last' = Did("go_to_next_task", "AttributeError")
            /\ UNCHANGED <<study_session, docker, filesystems>>
       ELSE /\ study_session' =
                  [s EXCEPT !.current_task_session_id = next_task_session_id]
            /\ requests' =
                  [requests EXCEPT
                      ![r].pc = "create",
                      ![r].study_session.current_task_session_id =
                          next_task_session_id]
            /\ UNCHANGED <<docker, filesystems, last>>
    /\ UNCHANGED <<task_sessions, containers, user_sessions, action_history>>

\* TaskSession.objects.create for the next task session, and the response
go_to_next_task_create(r) ==
    LET q == requests[r]
        next_task_session_id == q.study_session.current_task_session_id
    IN
    /\ q.pc = "create"
    /\ IF next_task_session_id \in DOMAIN task_sessions
       THEN /\ requests' = Answered(r, "IntegrityError")
            /\ last' = Did("go_to_next_task", "IntegrityError")
            /\ UNCHANGED task_sessions
       ELSE /\ task_sessions' =
                  [i \in Kept(task_sessions) \cup {next_task_session_id} |->
                      IF i = next_task_session_id
                      THEN NewTaskSession(
                               pick_task(q.study_session.num_tasks_completed))
                      ELSE task_sessions[i]]
            /\ requests' = Answered(r, "RUNNING")
            /\ last' = Did("go_to_next_task", "RUNNING")
    /\ UNCHANGED <<study_session, containers, docker, filesystems, user_sessions,
                   action_history>>

(* ------------------------------------------------------------------ *)
(* user_login, one database operation at a time                          *)
(* ------------------------------------------------------------------ *)

\* user_login requests of one participant that may overlap
MaxLogins == 3

\* user_login up to StudySession.objects.filter(user=user).count(): the
\* request either resumes a session and is answered, or goes on to register
\* study session number count + 1
user_login_count(check_existing_session) ==
    LET healthy_sessions == HealthySessions
        found == check_existing_session = "true" /\ healthy_sessions # <<>>
        closed ==
            IF check_existing_session = "true"
            THEN {RunningSessions[k] : k \in 1..Len(RunningSessions)}
                     \ (IF found THEN {Resumed(healthy_sessions)} ELSE {})
            ELSE {}
        destroyed == {user_sessions[i].container : i \in closed}
    IN
    /\ Len(requests) < MaxLogins
    /\ user_sessions' =
          [i \in 1..Len(user_sessions) |->
              IF i \in closed
              THEN ClosedUserSession(user_sessions[i], "closed_with_error")
              ELSE user_sessions[i]]
    /\ docker' = docker \ destroyed
    /\ filesystems' = filesystems \ {containers[c] : c \in destroyed}
    /\ requests' =
          Append(requests,
                 [pc |-> IF found THEN "done" ELSE "create",
                  session_id |-> Len(user_sessions) + 1,
                  status |-> IF found THEN "RUNNING_STUDY_SESSION_FOUND" ELSE ""])
    /\ last' = Did("user_login", IF found THEN "RUNNING_STUDY_SESSION_FOUND"
                                 ELSE "count")
    /\ UNCHANGED <<study_session, task_sessions, containers, action_history>>

\* user_login from create_container(session_id) on: the container is made
\* first, then StudySession.objects.create inserts the row, whose primary
\* key is session_id
user_login_create(r) ==
    LET session_id == requests[r].session_id
        exists == session_id <= Len(user_sessions)
    IN
    /\ requests[r].pc = "create"
    /\ containers' = Append(containers, SessionName(session_id))
    /\ docker' = docker \cup {NewContainer}
    /\ filesystems' = filesystems \cup {SessionName(session_id)}
    /\ user_sessions' = IF exists THEN user_sessions
                        ELSE Append(user_sessions, NewUserSession(NewContainer))
    /\ requests' = Answered(r, IF exists THEN "IntegrityError"
                               ELSE "SESSION_CREATED")
    /\ last' = Did("user_login", IF exists THEN "IntegrityError"
                                 ELSE "SESSION_CREATED")
    /\ UNCHANGED <<study_session, task_sessions, action_history>>

(* ------------------------------------------------------------------ *)
(* Specification                                                         *)
(* ------------------------------------------------------------------ *)

\* tasks a behaviour of SpecSandbox goes through
MaxServed == 1

\* the StudySession's own methods, called in any order
Next ==
    \/ inc_num_tasks_completed
    \/ \E reason \in StudyCloseReasons : close(reason)
    \/ update_current_task_session_id

Spec == Init /\ [][Next]_vars

\* the requests of a study session and its closes
NextViews ==
    \/ \E id \in DOMAIN task_sessions, reason \in TaskCloseReasons :
          go_to_next_task(id, reason)
    \/ \E reason \in ViewCloseReasons : CloseStudySession(reason)
    \/ \E reason \in StudyCloseReasons : close(reason)

SpecViews == Init /\ [][NextViews]_vars

\* create_new_container, destroy_container and close called in any order on the
\* TaskSession that user_login created
NextContainer ==
    \/ \E id \in DOMAIN task_sessions : create_new_container(id)
    \/ \E id \in DOMAIN task_sessions : destroy_container(id)
    \/ \E id \in DOMAIN task_sessions : refresh_from_db(id)
    \/ \E id \in DOMAIN task_sessions, reason \in TaskCloseReasons :
          TaskSession_close(id, reason)

SpecContainer == InitLogin /\ [][NextContainer]_vars

\* the sandboxes of the task sessions while the study goes from task to task
NextSandbox ==
    \/ \E id \in DOMAIN task_sessions : create_new_container(id)
    \/ \E id \in DOMAIN task_sessions : destroy_container(id)
    \/ \E id \in DOMAIN task_sessions, reason \in TaskCloseReasons :
          TaskSession_close(id, reason)
    \/ \E id \in DOMAIN task_sessions : refresh_from_db(id)
    \/ \E id \in DOMAIN task_sessions, reason \in TaskCloseReasons :
          /\ study_session.num_tasks_completed < MaxServed
          /\ go_to_next_task(id, reason)

SpecSandbox == InitLogin /\ [][NextSandbox]_vars

\* Container.destroy called on any Container row, also on one that
\* create_new_container replaced
NextDestroy ==
    \/ \E id \in DOMAIN task_sessions : create_new_container(id)
    \/ \E c \in 1..Len(containers) : Container_destroy(c)

SpecDestroy == InitLogin /\ [][NextDestroy]_vars

\* a participant without study sessions
InitUser ==
    /\ study_session = NewStudySession("group1", "pre-consent")
    /\ task_sessions = <<>>
    /\ containers = <<>>
    /\ docker = {}
    /\ filesystems = {}
    /\ last = Did("User", "ok")
    /\ user_sessions = <<>>
    /\ action_history = <<>>
    /\ requests = <<>>

\* the logins of one participant, the closes of the participant's study
\* sessions and the ends of their current task sessions
NextLogin ==
    \/ \E check_existing_session \in {"true", "false"} :
          user_login(check_existing_session)
    \/ \E i \in 1..Len(user_sessions), reason \in ViewCloseReasons :
          close_user_session(i, reason)
    \/ \E i \in 1..Len(user_sessions), reason \in TaskCloseReasons :
          task_session_closed(i, reason)
    \/ \E i \in 1..Len(user_sessions) : task_session_missing(i)

SpecLogin == InitUser /\ [][NextLogin]_vars

\* the terminal of the first task session: commands and resets
InitTerminal == InitLogin /\ study_session.group = "group1"

NextTerminal ==
    \/ \E id \in DOMAIN task_sessions, stdout \in Stdouts, type \in TaskTypes,
          goal \in GoalTexts, current_file_system \in Snapshots :
          on_command_execution(id, stdout, type, goal, current_file_system)
    \/ \E id \in DOMAIN task_sessions :
          reset_file_system(id, disk_2_dict(EmptyDisk, <<>>), EmptyDisk)

SpecTerminal == InitTerminal /\ [][NextTerminal]_vars

\* resets of the home directory of the first task session, whatever the task's
\* initial filesystem is and whatever the participant left in the directory
NextReset ==
    \E id \in DOMAIN task_sessions, initial_filesystem \in InitialFilesystems,
       home \in Disks :
        reset_file_system(id, initial_filesystem, home)

SpecReset == InitTerminal /\ [][NextReset]_vars

\* the sandbox of a TaskSession provisioned again and again, create_container
\* succeeding or raising
NextProvision ==
    \/ \E id \in DOMAIN task_sessions : create_new_container(id)
    \/ \E id \in DOMAIN task_sessions, error \in ProvisioningErrors :
          create_new_container_fails(id, error)
    \/ \E id \in DOMAIN task_sessions : destroy_container(id)
    \/ \E id \in DOMAIN task_sessions : refresh_from_db(id)

SpecProvision == InitLogin /\ [][NextProvision]_vars

\* a study session at the start of its training
InitTour ==
    /\ study_session = NewStudySession("group1", "training")
    /\ task_sessions = <<>>
    /\ containers = <<>>
    /\ docker = {}
    /\ filesystems = {}
    /\ last = Did("StudySession", "ok")
    /\ user_sessions = <<>>
    /\ action_history = <<>>
    /\ requests = <<>>

\* the task sessions of a study session one after the other: created, given a
\* sandbox, closed, counted
NextTour ==
    \/ \E type \in TaskTypes : start_task_session(type)
    \/ \E id \in DOMAIN task_sessions :
          /\ task_sessions[id].status = "running"
          /\ task_sessions[id].container = None
          /\ create_new_container(id)
    \/ \E id \in DOMAIN task_sessions, reason \in TaskCloseReasons :
          /\ task_sessions[id].status = "running"
          /\ TaskSession_close_of_type(id, task_sessions[id].type, reason)
    \/ /\ \E id \in DOMAIN task_sessions :
             /\ id = new_task_session_id(study_session)
             /\ task_sessions[id].status # "running"
       /\ inc_num_tasks_completed

SpecTour == InitTour /\ [][NextTour]_vars

\* go_to_next_task requests for the first task session of a study session,
\* their database operations interleaved
InitRace == InitLogin /\ study_session.group = "group1"

NextRace ==
    \/ \E reason \in TaskCloseReasons :
          task_session_id_required(get_task_session_id(0), reason)
    \/ \E r \in 1..Len(requests) : go_to_next_task_study_session(r)
    \/ \E r \in 1..Len(requests) : go_to_next_task_close(r)
    \/ \E r \in 1..Len(requests) : go_to_next_task_save(r)
    \/ \E r \in 1..Len(requests) : go_to_next_task_create(r)

SpecRace == InitRace /\ [][NextRace]_vars

\* a study whose participant ends one task session after the other: every
\* request is go_to_next_task for the current task session, and a task session
\* that is running is closed at some time
NextStudy ==
    \E reason \in TaskCloseReasons :
        /\ study_session.current_task_session_id \in DOMAIN task_sessions
        /\ go_to_next_task(study_session.current_task_session_id, reason)

SpecStudy == InitLogin /\ [][NextStudy]_vars /\ WF_vars(NextStudy)

(* ------------------------------------------------------------------ *)
(* Properties                                                            *)
(* ------------------------------------------------------------------ *)

OpenStatuses == {"running", "paused"}

\* C1: in every reachable state num_tasks_completed <= total_num_tasks, so
\* the assertions of the stage property and of go_to_next_task never fail.
C1_CompletedWithinTotal ==
    /\ study_session.num_tasks_completed <= study_session.total_num_tasks
    /\ stage(study_session) # "AssertionError"

\* C2: in status 'training', inc_num_tasks_completed never leaves the counter
\* above total_num_training_tasks; the call that reaches the total leaves
\* status 'running' and the counter 0, every earlier call leaves 'training'.
C2_TrainingEndsAtTotal ==
    [][(last'.op = "inc_num_tasks_completed" /\ study_session.status = "training")
        => LET n == study_session.num_tasks_completed + 1
               total == study_session.total_num_training_tasks
           IN /\ study_session'.num_tasks_completed <= total
              /\ n = total =>
                    /\ study_session'.status = "running"
                    /\ study_session'.num_tasks_completed = 0
              /\ n < total =>
                    /\ study_session'.status = "training"
                    /\ study_session'.num_tasks_completed = n]_vars

\* the call that ended the training has just run
C2_TrainingEnded ==
    /\ last.op = "inc_num_tasks_completed"
    /\ study_session.status = "running"
    /\ study_session.num_tasks_completed = 0

\* the blocks in the order of the group: first the block whose length is the
\* switch point of the group, then the other block
BlocksOfGroup(s) ==
    IF s.group \in {"group1", "group4"}
    THEN TASK_BLOCK_I \o TASK_BLOCK_II
    ELSE TASK_BLOCK_II \o TASK_BLOCK_I

\* C3: the task served as the n-th scored task is the n-th element of the
\* group's first block followed by the other block, so every task served at
\* stage 'I' belongs to the group's first block.
C3_ServedInGroupOrder ==
    \A id \in DOMAIN task_sessions :
        Number(id) <= study_session.total_num_tasks =>
            task_sessions[id].task = BlocksOfGroup(study_session)[Number(id)]

\* C4: stage is 'O' before the scored part; while running 'I' below the switch
\* point, 'II' from there below the total, 'III' at the total; and an
\* invalid-state error (ValueError) once finished, paused or closed_with_error.
C4_StageTable ==
    LET s == study_session
        n == s.num_tasks_completed
    IN
    /\ s.status \in PreStatuses => stage(s) = "O"
    /\ s.status = "running" =>
          /\ n < switch_point(s) => stage(s) = "I"
          /\ (switch_point(s) <= n /\ n < s.total_num_tasks) => stage(s) = "II"
          /\ n = s.total_num_tasks => stage(s) = "III"
    /\ s.status \in {"finished", "paused", "closed_with_error"} =>
          stage(s) = "ValueError"

\* C5: stage_change() is true exactly when the status is 'running' and the
\* counter equals 0, the switch point or total_num_tasks.
C5_StageChangeExactly ==
    stage_change(study_session) <=>
        /\ study_session.status = "running"
        /\ study_session.num_tasks_completed \in
              {0, switch_point(study_session), study_session.total_num_tasks}

\* a running session at the switch point, and one past it where nothing changes
C5_AtSwitchPoint ==
    /\ study_session.status = "running"
    /\ study_session.num_tasks_completed = switch_point(study_session)
    /\ stage_change(study_session)

Elements(seq) == {seq[i] : i \in 1..Len(seq)}

\* C6: the two blocks share no task id and repeat none, together they hold
\* total_num_tasks tasks, and for every group the switch point plus the length
\* of the block served second is total_num_tasks.
C6_BlocksPartitionTasks ==
    /\ Elements(TASK_BLOCK_I) \cap Elements(TASK_BLOCK_II) = {}
    /\ Cardinality(Elements(TASK_BLOCK_I)) = Len(TASK_BLOCK_I)
    /\ Cardinality(Elements(TASK_BLOCK_II)) = Len(TASK_BLOCK_II)
    /\ Len(TASK_BLOCK_I) + Len(TASK_BLOCK_II) = study_session.total_num_tasks
    /\ \A g \in Groups :
          LET second == IF g \in {"group1", "group4"}
                        THEN TASK_BLOCK_II ELSE TASK_BLOCK_I
          IN switch_point([group |-> g]) + Len(second)
                 = study_session.total_num_tasks

\* a study session of a group that is served block II first
C6_SessionOfSecondOrder ==
    /\ switch_point(study_session) = Len(TASK_BLOCK_II)
    /\ task_block_order(study_session) = "1"
    /\ study_session.total_num_tasks = 18

\* C7: a close of a StudySession that is neither running nor paused changes
\* nothing (status, current_task_session_id, close time, counter, sandbox),
\* also when go_to_next_task issues it at the end of the study; and a study
\* session whose sandbox has been destroyed is never open again, so no later
\* close destroys the sandbox a second time.
C7_CloseOfClosedIgnored ==
    /\ [][(last'.op \in {"close", "close_study_session"}
             /\ study_session.status \notin OpenStatuses)
          => UNCHANGED <<study_session, task_sessions, containers, docker,
                         filesystems>>]_vars
    /\ [][(last' = Did("go_to_next_task", "STUDY_SESSION_COMPLETE")
             /\ study_session.status \notin OpenStatuses)
          => UNCHANGED <<study_session, containers, docker, filesystems>>]_vars
    /\ []((study_session.container # None /\ ~Live(study_session.container))
             => study_session.status \notin OpenStatuses)

\* close_study_session called again after the sandbox was destroyed
C7_ClosedAgain ==
    /\ last = Did("close_study_session", "ignored")
    /\ study_session.container # None
    /\ ~Live(study_session.container)

\* C8: StudySession.close on a running or paused session clears
\* current_task_session_id, stamps the close time, sets the status to the
\* reason and leaves no live sandbox for the StudySession (stated for the
\* reasons that end the study, 'finished' and 'closed_with_error').
C8_CloseDestroysSandbox ==
    (last = Did("close", "closed")
        /\ study_session.status \in {"finished", "closed_with_error"})
    => /\ study_session.current_task_session_id = EmptyId
       /\ study_session.close_time # DefaultTime
       /\ ~Live(study_session.container)
       /\ \A id \in DOMAIN task_sessions : ~Live(task_sessions[id].container)

\* the Docker containers that exist for the TaskSession of row id
SandboxesOf(id) == {c \in docker : containers[c] = id}

\* C9: after any sequence of create_new_container and destroy_container calls
\* a TaskSession has at most one live sandbox, the one bound to it; right after
\* create_new_container it has exactly one, and the earlier ones are destroyed.
C9_AtMostOneSandbox ==
    \A id \in DOMAIN task_sessions :
        /\ Cardinality(SandboxesOf(id)) <= 1
        /\ SandboxesOf(id) \subseteq {task_sessions[id].container}
        /\ last.op = "create_new_container" =>
              /\ SandboxesOf(id) = {task_sessions[id].container}
              /\ id \in filesystems

\* create_new_container called a second time: the first container is gone
C9_CreatedTwice ==
    \E id \in DOMAIN task_sessions :
        /\ last.op = "create_new_container"
        /\ \E c \in 1..Len(containers) :
              /\ containers[c] = id
              /\ c # task_sessions[id].container
              /\ c \notin docker
        /\ Live(task_sessions[id].container)

\* C10: a TaskSession that is not running has no live sandbox bound to it.
C10_ClosedHasNoSandbox ==
    \A id \in DOMAIN task_sessions :
        task_sessions[id].status # "running" =>
            /\ ~Live(task_sessions[id].container)
            /\ ~Live(task_sessions[id].db_container)

\* C11: a TaskSession whose status is time_out, quit or passed keeps its status
\* and its end_time in every later step, and a close of it removes no Docker
\* container and no filesystem root.
C11_ClosedIsTerminal ==
    [][\A id \in DOMAIN task_sessions \cap DOMAIN task_sessions' :
          task_sessions[id].status \in TaskCloseReasons =>
              /\ task_sessions'[id].status = task_sessions[id].status
              /\ task_sessions'[id].end_time = task_sessions[id].end_time
              /\ last'.op = "TaskSession.close" =>
                    UNCHANGED <<docker, filesystems>>]_vars

\* C12: Container.destroy raises no error and leaves neither the Docker
\* container nor the filesystem root of the sandbox; called on a sandbox that
\* is already destroyed it changes nothing, and called on one whose container
\* or filesystem root alone is missing it removes what is left.
C12_DestroyIdempotent ==
    [][last'.op = "Container.destroy" =>
          LET c == last'.container IN
          /\ last'.result = "ok"
          /\ c \notin docker'
          /\ containers[c] \notin filesystems'
          /\ (~Live(c) /\ containers[c] \notin filesystems) =>
                UNCHANGED <<study_session, task_sessions, containers, docker,
                            filesystems>>]_vars

\* Container.destroy has returned from a call on a destroyed sandbox
C12_DestroyedTwice ==
    /\ last.op = "Container.destroy"
    /\ last.result = "ok"
    /\ last.found = <<FALSE, FALSE>>

\* C13: at most one StudySession of the participant has status 'running' or
\* 'paused'.
C13_AtMostOneOpenSession ==
    Cardinality({i \in 1..Len(user_sessions) :
                    user_sessions[i].status \in OpenStatuses}) <= 1

\* C14: user_login with check_existing_session true raises nothing; when some
\* running StudySession has a current TaskSession that exists and is running or
\* paused, the most recently created such session is returned and stays
\* running; every other session that was running, also one whose current
\* TaskSession is missing or closed, ends 'closed_with_error' with its
\* container and its filesystem root removed.
C14_ResumesNewestHealthy ==
    [][(last'.op = "user_login" /\ last'.check_existing_session = "true") =>
          LET healthy == {i \in 1..Len(user_sessions) :
                             /\ user_sessions[i].status = "running"
                             /\ user_sessions[i].current_task_status
                                    \in {"running", "paused"}}
              newest == CHOOSE i \in healthy : \A j \in healthy : j <= i
          IN
          /\ last'.result \in {"RUNNING_STUDY_SESSION_FOUND", "SESSION_CREATED"}
          /\ healthy # {} =>
                /\ last'.result = "RUNNING_STUDY_SESSION_FOUND"
                /\ last'.session = newest
                /\ user_sessions'[newest] = user_sessions[newest]
                /\ Live(user_sessions[newest].container)'
          /\ healthy = {} => last'.result = "SESSION_CREATED"
          /\ \A i \in 1..Len(user_sessions) :
                (user_sessions[i].status = "running"
                    /\ ~(healthy # {} /\ i = newest)) =>
                   /\ user_sessions'[i].status = "closed_with_error"
                   /\ user_sessions[i].container \notin docker'
                   /\ containers[user_sessions[i].container] \notin filesystems']_vars

\* a login with three running sessions resumed the newest one and closed the
\* two older ones
C14_ResumedAndClosedOthers ==
    /\ last.op = "user_login"
    /\ last.result = "RUNNING_STUDY_SESSION_FOUND"
    /\ last.session = 3
    /\ user_sessions[3].status = "running"
    /\ user_sessions[1].status = "closed_with_error"
    /\ user_sessions[2].status = "closed_with_error"
    /\ docker = {user_sessions[3].container}

\* C15: for a task of type 'file_search' or 'filesystem_change',
\* on_command_execution answers TASK_COMPLETED exactly when the diff of the
\* current filesystem against the goal has tag false.
C15_FilesystemTaskCompletion ==
    (last.op = "on_command_execution"
        /\ last.type \in {"file_search", "filesystem_change"})
    => (last.result = "TASK_COMPLETED"
           <=> ~filesystem_diff(last.current_file_system, "goal").tag)

\* the second-to-last line of a text, <<>> standing for no such line
SecondToLast(text) ==
    LET lines == split(text) IN
    IF Len(lines) < 2 THEN <<>> ELSE lines[Len(lines) - 1]

\* C16: for a task of type 'stdout' and every output, on_command_execution
\* answers TASK_COMPLETED exactly when the goal text is a substring of the
\* second-to-last output line, and otherwise answers without it; the
\* filesystem diff is in the response either way.
C16_StdoutTaskCompletion ==
    (last.op = "on_command_execution" /\ last.type = "stdout")
    => /\ last.result \in {"TASK_COMPLETED", "json_response"}
       /\ last.result = "TASK_COMPLETED"
             <=> Contains(last.goal, SecondToLast(last.stdout))
       /\ last.response = <<filesystem_diff(last.current_file_system,
                                             "initial_filesystem")>>

\* '{}'.format(n) for a number below 100, as characters
Digits(n) ==
    LET digit == [d \in 0..9 |->
                     <<"0", "1", "2", "3", "4", "5", "6", "7", "8", "9">>[d + 1]]
    IN IF n < 10 THEN <<digit[n]>> ELSE <<digit[n \div 10], digit[n % 10]>>

\* the text an identifier adds to the session_id of its StudySession
IdText(id) ==
    (IF id[1] = "-training-task-"
     THEN <<"-", "t", "r", "a", "i", "n", "i", "n", "g", "-", "t", "a", "s", "k", "-">>
     ELSE <<"-", "t", "a", "s", "k", "-">>) \o Digits(id[2])

\* C17: update_current_task_session_id sets and returns the '-training-task-k'
\* identifier in pre-consent, pre-training and training and the '-task-k'
\* identifier in running, k being num_tasks_completed + 1; in finished, paused
\* and closed_with_error it raises ValueError and changes nothing; and the
\* text of a training identifier never equals the text of a scored one.
C17_IdentifierByStatus ==
    /\ [][last'.op = "update_current_task_session_id" =>
            LET s == study_session
                k == s.num_tasks_completed + 1
            IN
            /\ s.status \in PreStatuses =>
                  /\ last'.result = "ok"
                  /\ study_session' =
                        [s EXCEPT !.current_task_session_id = <<"-training-task-", k>>]
            /\ s.status = "running" =>
                  /\ last'.result = "ok"
                  /\ study_session' =
                        [s EXCEPT !.current_task_session_id = <<"-task-", k>>]
            /\ s.status \in {"finished", "paused", "closed_with_error"} =>
                  /\ last'.result = "ValueError"
                  /\ study_session' = s]_vars
    /\ [](\A k, j \in 1..(MaxCompleted + 1) :
             LET training == new_task_session_id(
                     [status |-> "training", num_tasks_completed |-> k - 1])
                 scored == new_task_session_id(
                     [status |-> "running", num_tasks_completed |-> j - 1])
             IN training # scored /\ IdText(training) # IdText(scored))

\* update_current_task_session_id has set the first scored identifier of a
\* running session
C17_ScoredIdAfterTraining ==
    /\ last = Did("update_current_task_session_id", "ok")
    /\ study_session.status = "running"
    /\ study_session.total_num_training_tasks = 2
    /\ study_session.current_task_session_id = <<"-task-", 1>>

\* the Container rows bound to the StudySession or to a TaskSession object
BoundContainers ==
    {study_session.container}
        \cup {task_sessions[id].container : id \in DOMAIN task_sessions}

\* C18: every Docker container that exists and every filesystem root that
\* exists belongs to a Container row bound to a session, also after
\* create_container has failed.
C18_NoOrphanResource ==
    /\ docker \subseteq BoundContainers
    /\ \A name \in filesystems :
          \E c \in BoundContainers \ {None} : containers[c] = name

\* C19: reset_file_system on a session with a sandbox leaves the Container
\* rows (container id, filesystem name, port), the Docker containers and the
\* filesystem roots as they are, so a live sandbox stays live; it leaves the
\* TaskSession rows and the StudySession row unchanged, answers with the same
\* container, and adds exactly one ActionHistory row, with action '__reset__'
\* for that TaskSession, after the rows that exist.
C19_ResetKeepsSandbox ==
    [][(last'.op = "reset_file_system" /\ study_session.container # None) =>
          /\ last'.result = "ok"
          /\ last'.container_id = study_session.container
          /\ UNCHANGED <<containers, docker, filesystems, task_sessions,
                         study_session, user_sessions>>
          /\ Live(study_session.container) => Live(study_session.container)'
          /\ Len(action_history') = Len(action_history) + 1
          /\ SubSeq(action_history', 1, Len(action_history)) = action_history
          /\ action_history'[Len(action_history')] =
                [task_session |-> last'.task_session, action |-> RESET]]_vars

\* reset_file_system has answered for the running first task session, whose
\* sandbox is live
C19_ResetDone ==
    /\ last.op = "reset_file_system"
    /\ last.result = "ok"
    /\ Live(last.container_id)
    /\ task_sessions[last.task_session].status = "running"
    /\ action_history[Len(action_history)].action = RESET

\* C20: a TaskSession is shown a page tour exactly when no earlier TaskSession
\* of its study session had a task of the same type; the tour is the 'init_'
\* tour of the type when the TaskSession is a training task and the 'first_'
\* tour of the type when it is a scored task.
C20_TourOncePerType ==
    \A id \in DOMAIN task_sessions :
        LET t == task_sessions[id] IN
        /\ t.page_tour # NoTour <=> t.type \notin t.earlier
        /\ t.page_tour # NoTour =>
              IF t.is_training
              THEN t.page_tour \in {"init_standard_output", "init_file_search",
                                    "init_filesystem_change"}
              ELSE t.page_tour \in {"first_standard_output", "first_file_search",
                                    "first_filesystem_change"}

\* C21: once two go_to_next_task requests for the same running TaskSession
\* are answered, num_tasks_completed has advanced by exactly one, one of the
\* two requests closed the TaskSession and there is exactly one successor
\* TaskSession; a request that loaded the TaskSession closed changes neither
\* the counter nor the status of the TaskSession.
C21_DuplicateRequestAdvancesOnce ==
    (Len(requests) = 2 /\ \A r \in 1..2 : requests[r].pc = "done") =>
        /\ study_session.num_tasks_completed = 1
        /\ Cardinality({r \in 1..2 : requests[r].closed}) = 1
        /\ DOMAIN task_sessions = {get_task_session_id(0), get_task_session_id(1)}

\* C22: the go_to_next_task step that closes the running current TaskSession
\* of a running StudySession and brings num_tasks_completed to total_num_tasks
\* leaves the StudySession 'finished' with the counter at the total, its
\* sandbox destroyed, no TaskSession added and none running; and a study in
\* which every TaskSession is closed reaches status 'finished'.
C22_FinishedAtTotal ==
    /\ [][(/\ last'.op = "go_to_next_task"
           /\ study_session.status = "running"
           /\ study_session.current_task_session_id \in DOMAIN task_sessions
           /\ task_sessions[study_session.current_task_session_id].status = "running"
           /\ study_session.num_tasks_completed + 1 = study_session.total_num_tasks)
          => /\ last'.result = "STUDY_SESSION_COMPLETE"
             /\ study_session'.status = "finished"
             /\ study_session'.num_tasks_completed = study_session.total_num_tasks
             /\ stage(study_session') # "III"
             /\ ~Live(study_session.container)'
             /\ DOMAIN task_sessions' = DOMAIN task_sessions
             /\ \A id \in DOMAIN task_sessions' :
                   task_sessions'[id].status # "running"]_vars
    /\ <>(study_session.status = "finished")

\* the request that ended the last scored task has been answered
C22_StudyComplete ==
    /\ last = Did("go_to_next_task", "STUDY_SESSION_COMPLETE")
    /\ study_session.status = "finished"
    /\ study_session.num_tasks_completed = 18
    /\ study_session.container \notin docker


\* the TaskSessions of the StudySession whose sandbox is live
TaskSessionsWithLiveSandbox ==
    {id \in DOMAIN task_sessions : Live(task_sessions[id].container)}

\* C23: no two TaskSessions of the StudySession have a live sandbox at the
\* same time: the sandbox of an earlier TaskSession is gone when a new
\* TaskSession has one.
C23_OneLiveSandbox ==
    Cardinality(TaskSessionsWithLiveSandbox) <= 1


\* logins of one participant that overlap, and the closes of the
\* participant's study sessions
NextLoginRace ==
    \/ \E check_existing_session \in {"true", "false"} :
          user_login_count(check_existing_session)
    \/ \E r \in 1..Len(requests) : user_login_create(r)
    \/ \E i \in 1..Len(user_sessions), reason \in ViewCloseReasons :
          /\ close_user_session(i, reason)
          /\ UNCHANGED requests

SpecLoginRace == InitUser /\ [][NextLoginRace]_vars

\* the Container rows whose Docker container is live
LiveSandboxes == {c \in 1..Len(containers) : c \in docker}

\* C24: two live sandboxes never have the same filesystem root name.
C24_DistinctFilesystemNames ==
    \A c1, c2 \in LiveSandboxes :
        c1 # c2 => containers[c1] # containers[c2]


C26_GroupTable ==
    LET group == study_session.group
        block_I_first == group \in {"group1", "group2"}
        A_first == group \in {"group1", "group3"}
        orders(g) == LET s == [study_session EXCEPT !.group = g]
                     IN <<task_block_order(s), treatment_order(s)>>
    IN
    /\ task_block_order(study_session) = (IF block_I_first THEN "0" ELSE "1")
    /\ switch_point(study_session) =
          (IF block_I_first THEN Len(TASK_BLOCK_I) ELSE Len(TASK_BLOCK_II))
    /\ treatment_order(study_session) = (IF A_first THEN "0" ELSE "1")
    /\ treatment_assignments[<<treatment_order(study_session), "I">>] =
          (IF A_first THEN "A" ELSE "B")
    /\ \A g1, g2 \in Groups : g1 # g2 => orders(g1) # orders(g2)


\* values of request.GET['reason_for_close']: the three the pages send, and
\* two others a request can carry
ReasonsSupplied == TaskCloseReasons \cup {"running", "done"}

\* go_to_next_task requests with any reason_for_close
NextRequest ==
    \E id \in DOMAIN task_sessions, reason \in ReasonsSupplied :
        go_to_next_task(id, reason)

SpecRequest == InitLogin /\ [][NextRequest]_vars

\* C27: every TaskSession has one of the four statuses, and a TaskSession that
\* was counted in num_tasks_completed is not running: the running TaskSession
\* is a later one than the num_tasks_completed counted ones.
C27_StatusAfterClose ==
    \A id \in DOMAIN task_sessions :
        /\ task_sessions[id].status \in TaskStatuses
        /\ task_sessions[id].status = "running" =>
              Number(id) > study_session.num_tasks_completed


\* C28: on a TaskSession without a bound container, destroy_container ends
\* without an error and leaves the binding empty, and close ends without an
\* error, with the end time recorded and the TaskSession in a closed status.
C28_NoSandboxNoError ==
    [][\A id \in DOMAIN task_sessions :
          task_sessions[id].container = None =>
              /\ last'.op = "destroy_container" =>
                    /\ last'.result = "ok"
                    /\ task_sessions'[id].container = None
              /\ last'.op = "TaskSession.close" =>
                    /\ last'.result = "ok"
                    /\ task_sessions'[id].end_time \in Times
                    /\ task_sessions'[id].status \in TaskCloseReasons]_vars

====
